---- MODULE Spec2Model ----
(***************************************************************************)
(* A model of the LangGraph Helper Agent: run_agent and the four nodes of  *)
(* its workflow (query_classifier, web_search, retriever,                  *)
(* answer_generator), the lazily loaded vector store handle, and the       *)
(* capabilities the nodes call (generative model, web search, index).      *)
(*                                                                         *)
(* A Python str is modelled as the sequence of its characters, so that     *)
(* len, strip and lower are computed and  +  is \o.  A literal that the    *)
(* code only concatenates and compares is kept as one element.  A value    *)
(* that may be None is a sequence of length 0 (None) or 1 (the value).     *)
(***************************************************************************)
EXTENDS Integers, Sequences, FiniteSets, TLC

VARIABLES
    pc,                 \* where the process is: "idle", a node, "returned", "raised"
    args,               \* the arguments of the current call of run_agent, and the
                        \* caller's history list as the call leaves it
    state,              \* the AgentState of the current run
    result,             \* what run_agent returned (None until it returns)
    error,              \* the exception run_agent raised (None if none)
    trace,              \* the nodes executed in the current run, in order
    calls,              \* capability calls made during the current call
    last,               \* outcome of the latest capability call
    search_queries,     \* retriever: the variant list handed to multi_query_search
    qi,                 \* multi_query_search: number of variants already searched
    seen_content,       \* multi_query_search: the signatures seen
    all_docs,           \* multi_query_search: the accumulator
    fetched,            \* multi_query_search called alone: what each search returned
    vectorstore_cache,  \* retriever._vectorstore_cache
    loads,              \* number of executions of load_vectorstore in the process
    index_on_disk,      \* the on-disk index: "present", "absent" or "corrupt"
    graph,              \* graph._graph
    tpc,                \* per thread: position inside get_vectorstore
    tret,               \* per thread: what its last get_vectorstore returned
    tcalls,             \* per thread: calls of get_vectorstore started
    lock,               \* holder of _vectorstore_lock (0: free)
    gpc,                \* per thread: position inside get_graph
    gret,               \* per thread: the graph it built, then what get_graph returned
    gcalls,             \* per thread: calls of get_graph started
    builds,             \* number of executions of build_graph in the process
    AGENT_MODE,         \* config.AGENT_MODE
    mode_at_import,     \* the value AGENT_MODE got when config was imported
    mode_set,           \* lowercased arguments of the set_mode calls that passed the test
    mpc,                \* per thread: position inside set_mode
    marg,               \* per thread: the argument of its set_mode
    mret,               \* per thread: outcome of its last get_mode or set_mode
    mcalls              \* per thread: calls of get_mode and set_mode started

runVars == <<pc, args, state, result, error, trace, calls, last>>
searchVars == <<search_queries, qi, seen_content, all_docs, fetched>>
cacheVars == <<vectorstore_cache, loads, index_on_disk>>
getVars == <<gpc, gret, gcalls, builds>>
threadVars == <<tpc, tret, tcalls, lock, getVars>>
modeVars == <<AGENT_MODE, mode_at_import, mode_set, mpc, marg, mret, mcalls>>
vars == <<runVars, searchVars, cacheVars, graph, threadVars, modeVars>>

----------------------------------------------------------------------------
(* Optional values and strings *)

None == <<>>
Some(v) == <<v>>
Val(o) == o[1]

Range(s) == {s[i] : i \in 1..Len(s)}
Rep(c, n) == [i \in 1..n |-> c]

\* Characters str.strip() removes
Whitespace == {" ", "\t", "\n"}

UpperCase == <<"A","B","C","D","E","F","G","H","I","J","K","L","M",
               "N","O","P","Q","R","S","T","U","V","W","X","Y","Z">>
LowerCase == <<"a","b","c","d","e","f","g","h","i","j","k","l","m",
               "n","o","p","q","r","s","t","u","v","w","x","y","z">>

LowerChar(c) ==
    IF \E i \in 1..26 : UpperCase[i] = c
    THEN LowerCase[CHOOSE i \in 1..26 : UpperCase[i] = c]
    ELSE c

\* str.lower()
Lower(s) == [i \in 1..Len(s) |-> LowerChar(s[i])]

\* str.strip(): s without its leading and trailing whitespace
Strip(s) ==
    IF \A i \in 1..Len(s) : s[i] \in Whitespace
    THEN <<>>
    ELSE LET first == CHOOSE i \in 1..Len(s) :
                          /\ s[i] \notin Whitespace
                          /\ \A j \in 1..(i - 1) : s[j] \in Whitespace
             final == CHOOSE i \in 1..Len(s) :
                          /\ s[i] \notin Whitespace
                          /\ \A j \in (i + 1)..Len(s) : s[j] \in Whitespace
         IN  SubSeq(s, first, final)

\* list[-n:]
LastN(s, n) == IF Len(s) > n THEN SubSeq(s, Len(s) - n + 1, Len(s)) ELSE s

\* list[:n]
FirstN(s, n) == IF Len(s) > n THEN SubSeq(s, 1, n) ELSE s

----------------------------------------------------------------------------
(* Program constants *)

MAX_QUERY_LENGTH == 2000
MAX_CHAT_HISTORY == 20
TOP_K_RESULTS == 8
MAX_TOTAL_DOCS == 15
MAX_SEARCH_RESULTS == 3
DEDUP_KEY_LENGTH == 200
CHAT_HISTORY_CONTEXT_LENGTH == 6

Langgraph == <<"l","a","n","g","g","r","a","p","h">>
Langchain == <<"l","a","n","g","c","h","a","i","n">>
CodeExample == <<"c","o","d","e","_","e","x","a","m","p","l","e">>
General == <<"g","e","n","e","r","a","l">>

VALID_QUERY_TYPES == {Langgraph, Langchain, CodeExample, General}
DEFAULT_QUERY_TYPE == Langgraph

Offline == <<"o","f","f","l","i","n","e">>
Online == <<"o","n","l","i","n","e">>

----------------------------------------------------------------------------
(* Bounds of the model and the inputs drawn within them *)

MaxPad == 1         \* whitespace characters around a padded query
ShortLen == 2       \* length of the short query
ShortHistory == 3   \* length of the short chat history
MaxLoads == 2       \* executions of load_vectorstore the model follows

Pad == Rep(" ", MaxPad)

\* empty, whitespace-only, short and padded, exactly at the limit once
\* stripped, one over the limit
ShortQuery == Pad \o Rep("q", ShortLen) \o Pad

Queries ==
    { <<>>,
      Pad \o <<"\n">>,
      ShortQuery,
      Pad \o Rep("q", MAX_QUERY_LENGTH) \o Pad,
      Rep("q", MAX_QUERY_LENGTH + 1) }

Modes ==
    { Offline, Online, <<"O","n","l","i","n","e">>, <<"h","y","b","r","i","d">> }

User == <<"u","s","e","r">>
Assistant == <<"a","s","s","i","s","t","a","n","t">>

\* A history as main.py builds it: user and assistant messages in turn
Hist(n) ==
    [i \in 1..n |-> [role |-> IF i % 2 = 1 THEN User ELSE Assistant,
                     content |-> ToString(i)]]

Histories ==
    { None, Some(Hist(0)), Some(Hist(ShortHistory)), Some(Hist(MAX_CHAT_HISTORY + 5)) }

\* The calls of run_agent: every query with a valid and an invalid mode, and
\* the short query with every mode and history
Inputs ==
    {<<q, m, None>> : q \in Queries, m \in {Offline, <<"h","y","b","r","i","d">>}}
    \cup {<<ShortQuery, m, h>> : m \in Modes, h \in Histories}

----------------------------------------------------------------------------
(* Exceptions, capability outcomes *)

Exc(type, msg, where) == [type |-> type, msg |-> msg, node |-> where]

NoCalls == [llm |-> 0, web |-> 0, load |-> 0, search |-> 0]
NoLast == [node |-> "", cap |-> "", out |-> "", input |-> <<>>, output |-> <<>>]
Last(node, cap, out, input, output) ==
    [node |-> node, cap |-> cap, out |-> out, input |-> input, output |-> output]

\* What constructing UnifiedLLMClient() can do: succeed, or fail on the
\* configuration file (load_yaml_config) or on the API key (load_env_var).
ClientOutcomes == {"ok", "FileNotFoundError", "APIKeyError"}

\* Exceptions of the llm_client hierarchy (subclasses of LLMClientError)
LLMClientErrors == {"ConfigurationError", "ProviderError", "APIKeyError"}

\* What self.llm.invoke can raise.  "OtherError" is any exception that is
\* none of the classes UnifiedLLMClient.invoke names.
LlmFailures ==
    {"RequestException", "HTTPError", "TimeoutError", "ConnectionError",
     "ValueError", "OtherError"}

\* The classes UnifiedLLMClient.invoke turns into ProviderError
LlmWrapped ==
    {"RequestException", "HTTPError", "TimeoutError", "ConnectionError", "ValueError"}

\* Mutant: the "except ValueError" clause is missing
invoke_raises_no_value_error(kind) ==
    IF kind \in LlmWrapped \ {"ValueError"} THEN "ProviderError" ELSE kind

\* UnifiedLLMClient.invoke: the exception the caller sees for a failure of
\* self.llm.invoke
invoke_raises(kind) == IF kind \in LlmWrapped THEN "ProviderError" ELSE kind

----------------------------------------------------------------------------
(* graph.py *)

\* sanitize_query: logs a warning on a suspicious pattern, returns its input
sanitize_query(query) == query

\* Mutant: the emptiness test without "or not query.strip()"
validation_error_no_strip_test(query, mode) ==
    IF query = <<>>
    THEN Some("Query cannot be empty")
    ELSE IF Len(Strip(query)) > MAX_QUERY_LENGTH
    THEN Some("Query too long")
    ELSE IF mode \notin {Offline, Online}
    THEN Some("Mode must be 'offline' or 'online'")
    ELSE None

\* Mutant: the mode is not validated
validation_error_no_mode_test(query, mode) ==
    IF query = <<>> \/ Strip(query) = <<>>
    THEN Some("Query cannot be empty")
    ELSE IF Len(Strip(query)) > MAX_QUERY_LENGTH
    THEN Some("Query too long")
    ELSE None

\* run_agent's input validation: the message of the ValueError raised, or
\* None when the input passes.  The length is that of the stripped query.
validation_error(query, mode) ==
    IF query = <<>> \/ Strip(query) = <<>>
    THEN Some("Query cannot be empty")
    ELSE IF Len(Strip(query)) > MAX_QUERY_LENGTH
    THEN Some("Query too long")
    ELSE IF mode \notin {Offline, Online}
    THEN Some("Mode must be 'offline' or 'online'")
    ELSE None

\* Mutant: the slice keeps the first MAX_CHAT_HISTORY entries
limit_history_first_entries(chat_history) ==
    LET history == IF chat_history = None \/ Val(chat_history) = <<>>
                   THEN <<>> ELSE Val(chat_history)
    IN  FirstN(history, MAX_CHAT_HISTORY)

\* Mutant: the caller's list is cut in place (del history[:-MAX_CHAT_HISTORY])
caller_history_cut_in_place(chat_history) ==
    IF chat_history = None
    THEN None
    ELSE Some(LastN(Val(chat_history), MAX_CHAT_HISTORY))

\* The caller's list object once run_agent has limited the history:
\* "chat_history or []" and the slice build new lists, nothing is written
\* to the list passed in
caller_history_after(chat_history) == chat_history

\* chat_history or [], cut to the last MAX_CHAT_HISTORY entries
limit_history(chat_history) ==
    LET history == IF chat_history = None \/ Val(chat_history) = <<>>
                   THEN <<>> ELSE Val(chat_history)
    IN  IF Len(history) > MAX_CHAT_HISTORY
        THEN LastN(history, MAX_CHAT_HISTORY)
        ELSE history

\* Mutant: the initial state comes with a context
initial_state_with_context(query, mode, chat_history) ==
    [ query |-> sanitize_query(Strip(query)),
      query_type |-> None,
      mode |-> mode,
      retrieved_docs |-> None,
      web_results |-> None,
      context |-> Some(<<"No context available.">>),
      response |-> None,
      chat_history |-> limit_history(chat_history) ]

\* The state run_agent hands to graph.invoke
initial_state(query, mode, chat_history) ==
    [ query |-> sanitize_query(Strip(query)),
      query_type |-> None,
      mode |-> mode,
      retrieved_docs |-> None,
      web_results |-> None,
      context |-> None,
      response |-> None,
      chat_history |-> limit_history(chat_history) ]

\* Mutant: the branch follows the process-wide flag
route_by_mode_reads_flag(s) == IF AGENT_MODE = Online THEN "web_search" ELSE "retriever"

\* Mutant: the online branch goes to retriever as well
route_by_mode_skips_web(s) == IF s.mode = Online THEN "retriever" ELSE "retriever"

route_by_mode(s) == IF s.mode = Online THEN "web_search" ELSE "retriever"

\* The edges build_graph adds: the node that follows node n in state s
build_graph(n, s) ==
    CASE n = "START" -> "query_classifier"
      [] n = "query_classifier" -> route_by_mode(s)
      [] n = "web_search" -> "retriever"
      [] n = "retriever" -> "answer_generator"
      [] n = "answer_generator" -> "END"

\* Mutant: merging a patch empties the history
Merge_drops_history(s, patch) ==
    [f \in DOMAIN s |-> IF f \in DOMAIN patch THEN patch[f]
                        ELSE IF f = "chat_history" THEN <<>> ELSE s[f]]

\* The engine merges a node's patch: the fields present overwrite
Merge(s, patch) ==
    [f \in DOMAIN s |-> IF f \in DOMAIN patch THEN patch[f] ELSE s[f]]

\* get_graph: the compiled graph, built on first use
get_graph(g) == IF g = None THEN Some("compiled") ELSE g

\* Mutant: a run on a graph compiled by an earlier run starts without
\* the history
run_agent_on_reused_graph(query, mode, chat_history) ==
    LET bad == validation_error(query, mode)
        initial == [initial_state(query, mode, chat_history) EXCEPT
                       !.chat_history = IF graph = None THEN @ ELSE <<>>]
    IN  /\ pc = "idle"
        /\ args' = [ query |-> query, mode |-> mode, chat_history |-> chat_history,
                     caller_history |-> IF bad # None
                                        THEN chat_history
                                        ELSE caller_history_after(chat_history) ]
        /\ calls' = NoCalls
        /\ last' = NoLast
        /\ result' = None
        /\ UNCHANGED <<searchVars, cacheVars, threadVars, modeVars>>
        /\ IF bad # None
           THEN /\ error' = Some(Exc("ValueError", Val(bad), "run_agent"))
                /\ pc' = "raised"
                /\ trace' = <<>>
                /\ UNCHANGED <<state, graph>>
           ELSE /\ error' = None
                /\ graph' = get_graph(graph)
                /\ state' = initial
                /\ trace' = <<>>
                /\ pc' = build_graph("START", initial)

\* run_agent up to graph.invoke: validation, history limit, initial state
run_agent(query, mode, chat_history) ==
    LET bad == validation_error(query, mode)
    IN  /\ pc = "idle"
        /\ args' = [ query |-> query, mode |-> mode, chat_history |-> chat_history,
                     caller_history |-> IF bad # None
                                        THEN chat_history
                                        ELSE caller_history_after(chat_history) ]
        /\ calls' = NoCalls
        /\ last' = NoLast
        /\ result' = None
        /\ UNCHANGED <<searchVars, cacheVars, threadVars, modeVars>>
        /\ IF bad # None
           THEN /\ error' = Some(Exc("ValueError", Val(bad), "run_agent"))
                /\ pc' = "raised"
                /\ trace' = <<>>
                /\ UNCHANGED <<state, graph>>
           ELSE /\ error' = None
                /\ graph' = get_graph(graph)
                /\ state' = initial_state(query, mode, chat_history)
                /\ trace' = <<>>
                /\ pc' = build_graph("START", initial_state(query, mode, chat_history))

\* Mutant: the exception of a node is swallowed and the run ends
Raise_swallowed(node, type, msg) ==
    /\ pc' = "returned"
    /\ error' = None
    /\ UNCHANGED <<state, result>>

\* A node raised: graph.invoke and run_agent propagate the exception
Raise(node, type, msg) ==
    /\ pc' = "raised"
    /\ error' = Some(Exc(type, msg, node))
    /\ UNCHANGED <<state, result>>

\* A node returned its patch: the engine merges it and follows the edge;
\* at END run_agent returns result["response"]
Advance(node, patch) ==
    LET s == Merge(state, patch)
        next == build_graph(node, s)
    IN  /\ state' = s
        /\ error' = None
        /\ IF next = "END"
           THEN /\ pc' = "returned"
                /\ result' = s.response
           ELSE /\ pc' = next
                /\ UNCHANGED result

----------------------------------------------------------------------------
(* nodes/query_classifier.py *)

\* What the model may answer to the classification prompt
ClassifierOutputs ==
    { Langgraph,
      <<" ","L","a","n","g","C","h","a","i","n","\n">>,
      <<"C","O","D","E","_","E","X","A","M","P","L","E">>,
      <<"G","e","n","e","r","a","l","\t">>,
      <<"u","n","s","u","r","e">>,
      <<"l","a","n","g"," ","g","r","a","p","h">>,
      <<>> }

CLASSIFICATION_PROMPT(query) == <<"CLASSIFICATION_PROMPT: ">> \o query

\* Mutant: the output is trimmed but not lowercased
classify_no_lower(response) ==
    IF Strip(response) \notin VALID_QUERY_TYPES
    THEN DEFAULT_QUERY_TYPE
    ELSE Strip(response)

\* response.strip().lower(), forced to the default outside the valid set
classify(response) ==
    LET query_type == Lower(Strip(response))
    IN  IF query_type \notin VALID_QUERY_TYPES
        THEN DEFAULT_QUERY_TYPE
        ELSE query_type

\* The fields of the state query_classifier reads
query_classifier_reads == {"query"}

query_classifier ==
    /\ pc = "query_classifier"
    /\ trace' = Append(trace, "query_classifier")
    /\ UNCHANGED <<args, searchVars, cacheVars, graph, threadVars, modeVars>>
    /\ \E client \in ClientOutcomes :
         IF client # "ok"
         THEN /\ Raise("query_classifier", client, "UnifiedLLMClient()")
              /\ last' = Last("query_classifier", "client", client, <<>>, <<>>)
              /\ UNCHANGED calls
         ELSE /\ calls' = [calls EXCEPT !.llm = @ + 1]
              /\ \/ \E kind \in LlmFailures :
                      /\ Raise("query_classifier", invoke_raises(kind), "invoke")
                      /\ last' = Last("query_classifier", "llm", kind,
                                      CLASSIFICATION_PROMPT(state.query), <<>>)
                 \/ \E response \in ClassifierOutputs :
                      /\ Advance("query_classifier",
                                 [query_type |-> Some(classify(response))])
                      /\ last' = Last("query_classifier", "llm", "ok",
                                      CLASSIFICATION_PROMPT(state.query), response)

----------------------------------------------------------------------------
(* nodes/web_search.py *)

\* What DDGS().text can raise.  "OtherError" is any exception that is none
\* of the classes web_search names in its except clauses.
WebFailures ==
    {"RatelimitException", "TimeoutException", "DDGSException",
     "RequestException", "TimeoutError", "ConnectionError", "OtherError"}

\* The classes web_search catches
WebCaught ==
    {"RatelimitException", "TimeoutException", "DDGSException",
     "RequestException", "TimeoutError", "ConnectionError"}

Raw(title, body, href) == [title |-> title, body |-> body, href |-> href]

\* Result lists the provider may return (at most MAX_SEARCH_RESULTS each):
\* complete results, and results lacking the title, the body or the URL
RawResultLists ==
    { <<>>,
      << Raw(<<"T1">>, <<"B1">>, <<"U1">>), Raw(<<"T2">>, <<"B2">>, <<>>),
         Raw(<<>>, <<"B3">>, <<"U3">>) >>,
      << Raw(<<"T4">>, <<>>, <<"U4">>), Raw(<<>>, <<>>, <<"U5">>) >>,
      << Raw(<<>>, <<"B3">>, <<"U3">>), Raw(<<"T1">>, <<"B1">>, <<"U1">>) >> }

\* The query sent to the provider
web_search_query(s) ==
    IF s.query_type = Some(Langgraph)
    THEN <<"LangGraph ">> \o s.query
    ELSE IF s.query_type = Some(Langchain)
    THEN <<"LangChain ">> \o s.query
    ELSE <<"LangGraph LangChain ">> \o s.query

\* One formatted entry; the caller has checked title and body
format_result(r) ==
    LET formatted == <<"**">> \o r.title \o <<"**\n">> \o r.body
    IN  IF r.href # <<>> THEN formatted \o <<"\nSource: ">> \o r.href ELSE formatted

\* Mutant: a result is kept when it has a title or a body
RECURSIVE format_results_title_or_body(_)
format_results_title_or_body(results) ==
    IF results = <<>>
    THEN <<>>
    ELSE LET r == Head(results)
         IN  IF r.title # <<>> \/ r.body # <<>>
             THEN <<format_result(r)>> \o format_results_title_or_body(Tail(results))
             ELSE format_results_title_or_body(Tail(results))

\* The loop over the raw results: an entry for each result with a title
\* and a body, in order
RECURSIVE format_results(_)
format_results(results) ==
    IF results = <<>>
    THEN <<>>
    ELSE LET r == Head(results)
         IN  IF r.title # <<>> /\ r.body # <<>>
             THEN <<format_result(r)>> \o format_results(Tail(results))
             ELSE format_results(Tail(results))

\* Mutant: a caught failure returns an empty patch
web_search_patch_empty_on_failure(failure, results) ==
    IF failure \in WebCaught
    THEN <<>>
    ELSE [web_results |-> Some(format_results(results))]

\* The patch web_search returns for an outcome of the provider call it
\* handles: the formatted results, or the empty list for a caught failure
web_search_patch(failure, results) ==
    IF failure \in WebCaught
    THEN [web_results |-> Some(<<>>)]
    ELSE [web_results |-> Some(format_results(results))]

\* The fields of the state web_search reads
web_search_reads == {"query", "query_type"}

web_search ==
    /\ pc = "web_search"
    /\ trace' = Append(trace, "web_search")
    /\ calls' = [calls EXCEPT !.web = @ + 1]
    /\ UNCHANGED <<args, searchVars, cacheVars, graph, threadVars, modeVars>>
    /\ \/ \E results \in RawResultLists :
            /\ Advance("web_search", web_search_patch("", results))
            /\ last' = Last("web_search", "web", "ok", web_search_query(state), results)
       \/ \E kind \in WebFailures :
            /\ last' = Last("web_search", "web", kind, web_search_query(state), <<>>)
            /\ IF kind \in WebCaught
               THEN Advance("web_search", web_search_patch(kind, <<>>))
               ELSE Raise("web_search", kind, "DDGS().text")

----------------------------------------------------------------------------
(* data_prep/vectorstore.py, nodes/retriever.py: the vector store handle *)

\* load_vectorstore on the default path: None when index.faiss is missing,
\* a new FAISS instance (named by the ordinal n of the load) when it is
\* present, an exception when FAISS.load_local fails on what is there
load_vectorstore(disk, n) ==
    CASE disk = "absent" -> [raised |-> FALSE, value |-> None]
      [] disk = "present" -> [raised |-> FALSE, value |-> Some(n)]
      [] disk = "corrupt" -> [raised |-> TRUE, value |-> None]

\* get_vectorstore's first test, made without the lock
must_load(cache) == cache = None

\* Mutant: no second test inside the lock
must_load_locked_unchecked(cache) == TRUE

\* The second test, made while holding _vectorstore_lock
must_load_locked(cache) == cache = None

\* get_vectorstore run without interruption: the value it returns, the
\* cache it leaves and whether it executed (and failed in) load_vectorstore
get_vectorstore(cache, disk, n) ==
    IF must_load(cache) /\ must_load_locked(cache)
    THEN LET loaded == load_vectorstore(disk, n)
         IN  [ loaded |-> TRUE,
               raised |-> loaded.raised,
               cache |-> IF loaded.raised THEN cache ELSE loaded.value,
               value |-> loaded.value ]
    ELSE [loaded |-> FALSE, raised |-> FALSE, cache |-> cache, value |-> cache]

----------------------------------------------------------------------------
(* nodes/retriever.py: documents, search, ranking, context *)

Doc(content, source) == [page_content |-> content, source |-> source]

\* A source of the priority lists, an unlisted one, or no source at all
SourceOf(i) ==
    CASE i % 6 = 0 -> Some("langchain")
      [] i % 6 = 1 -> Some("other")
      [] i % 6 = 2 -> Some("langchain_full")
      [] i % 6 = 3 -> None
      [] i % 6 = 4 -> Some("langgraph")
      [] i % 6 = 5 -> Some("langgraph_full")

\* Contents that agree on their first DEDUP_KEY_LENGTH characters
LongContent(tag) == Rep("x", DEDUP_KEY_LENGTH) \o <<tag>>

ListA == [i \in 1..TOP_K_RESULTS |-> Doc(<<"A", ToString(i)>>, SourceOf(i))]
ListB == [i \in 1..TOP_K_RESULTS |-> Doc(<<"B", ToString(i)>>, SourceOf(i + 2))]
ListD ==
    << Doc(LongContent("1"), Some("langchain")),
       Doc(LongContent("2"), Some("langgraph_full")),
       ListA[1], ListA[1] >>

\* What one similarity search may return (at most k documents)
SearchResults == {<<>>, ListA, ListB, ListD}

SOURCE_PRIORITY(query_type) ==
    CASE query_type = Langgraph ->
           <<"langgraph_full", "langgraph", "langchain_full", "langchain">>
      [] query_type = Langchain ->
           <<"langchain_full", "langchain", "langgraph_full", "langgraph">>
      [] query_type = CodeExample ->
           <<"langgraph_full", "langchain_full", "langgraph", "langchain">>
      [] OTHER ->
           <<"langgraph_full", "langchain_full", "langgraph", "langchain">>

\* doc.metadata.get("source", "unknown")
source_of(doc) == IF doc.source = None THEN "unknown" ELSE Val(doc.source)

RECURSIVE Join(_, _)
\* sep.join(parts)
Join(parts, sep) ==
    IF parts = <<>> THEN <<>>
    ELSE IF Len(parts) = 1 THEN Head(parts)
    ELSE Head(parts) \o sep \o Join(Tail(parts), sep)

format_doc(doc) == <<"[Source: ", source_of(doc), "]\n">> \o doc.page_content

format_docs(docs) ==
    IF docs = <<>>
    THEN <<"No relevant documentation found.">>
    ELSE Join([i \in 1..Len(docs) |-> format_doc(docs[i])], <<"\n\n---\n\n">>)

\* priority.index(source), or len(priority) for a source not in the list
get_priority(doc, priority) ==
    IF \E i \in 1..Len(priority) : priority[i] = source_of(doc)
    THEN (CHOOSE i \in 1..Len(priority) : priority[i] = source_of(doc)) - 1
    ELSE Len(priority)

\* Mutant: a sort that puts a document before those of equal key
RECURSIVE InsertByKey_before_equal(_, _, _)
InsertByKey_before_equal(sorted, doc, priority) ==
    IF sorted = <<>>
    THEN <<doc>>
    ELSE IF get_priority(Head(sorted), priority) < get_priority(doc, priority)
    THEN <<Head(sorted)>> \o InsertByKey_before_equal(Tail(sorted), doc, priority)
    ELSE <<doc>> \o sorted

\* sorted(): a stable sort, here by insertion after the elements whose key
\* is not larger
RECURSIVE InsertByKey(_, _, _)
InsertByKey(sorted, doc, priority) ==
    IF sorted = <<>>
    THEN <<doc>>
    ELSE IF get_priority(Head(sorted), priority) <= get_priority(doc, priority)
    THEN <<Head(sorted)>> \o InsertByKey(Tail(sorted), doc, priority)
    ELSE <<doc>> \o sorted

RECURSIVE SortedByKey(_, _)
SortedByKey(docs, priority) ==
    IF docs = <<>>
    THEN <<>>
    ELSE InsertByKey(SortedByKey(SubSeq(docs, 1, Len(docs) - 1), priority),
                     docs[Len(docs)], priority)

prioritize_docs(docs, query_type) == SortedByKey(docs, SOURCE_PRIORITY(query_type))

\* Mutant: the whole content is the key
content_key_whole_content(doc) == doc.page_content

\* doc.page_content[:200]
content_key(doc) == FirstN(doc.page_content, DEDUP_KEY_LENGTH)

\* Mutant: the cap test is len(all_docs) > max_total
RECURSIVE add_docs_cap_exceeded(_, _, _, _)
add_docs_cap_exceeded(docs, seen, acc, max_total) ==
    IF docs = <<>>
    THEN [seen |-> seen, all_docs |-> acc, returned |-> FALSE]
    ELSE LET doc == Head(docs)
         IN  IF content_key(doc) \notin seen
             THEN IF Len(acc) + 1 > max_total
                  THEN [ seen |-> seen \cup {content_key(doc)},
                         all_docs |-> Append(acc, doc), returned |-> TRUE ]
                  ELSE add_docs_cap_exceeded(Tail(docs), seen \cup {content_key(doc)},
                                             Append(acc, doc), max_total)
             ELSE add_docs_cap_exceeded(Tail(docs), seen, acc, max_total)

\* Mutant: at the cap the document is dropped and the loops go on
RECURSIVE add_docs_no_early_return(_, _, _, _)
add_docs_no_early_return(docs, seen, acc, max_total) ==
    IF docs = <<>>
    THEN [seen |-> seen, all_docs |-> acc, returned |-> FALSE]
    ELSE LET doc == Head(docs)
         IN  IF content_key(doc) \notin seen /\ Len(acc) < max_total
             THEN add_docs_no_early_return(Tail(docs), seen \cup {content_key(doc)},
                                           Append(acc, doc), max_total)
             ELSE add_docs_no_early_return(Tail(docs), seen, acc, max_total)

\* The inner loop of multi_query_search over one variant's results
RECURSIVE add_docs(_, _, _, _)
add_docs(docs, seen, acc, max_total) ==
    IF docs = <<>>
    THEN [seen |-> seen, all_docs |-> acc, returned |-> FALSE]
    ELSE LET doc == Head(docs)
         IN  IF content_key(doc) \notin seen
             THEN IF Len(acc) + 1 >= max_total
                  THEN [ seen |-> seen \cup {content_key(doc)},
                         all_docs |-> Append(acc, doc), returned |-> TRUE ]
                  ELSE add_docs(Tail(docs), seen \cup {content_key(doc)},
                                Append(acc, doc), max_total)
             ELSE add_docs(Tail(docs), seen, acc, max_total)

\* Mutant: the language-qualified variant is left out
build_search_queries_no_python(query, query_type) ==
    << query >> \o
    ( IF query_type = Langgraph
      THEN << <<"LangGraph Python ">> \o query, <<"from langgraph ">> \o query,
              <<"builder.compile ">> \o query, <<"StateGraph ">> \o query >>
      ELSE IF query_type = Langchain
      THEN << <<"LangChain Python ">> \o query, <<"from langchain ">> \o query >>
      ELSE IF query_type = CodeExample
      THEN << <<"Python code example ">> \o query, <<"def ">> \o query >>
      ELSE <<>> )

\* The variant list retriever builds
build_search_queries(query, query_type) ==
    << query, <<"Python ">> \o query >> \o
    ( IF query_type = Langgraph
      THEN << <<"LangGraph Python ">> \o query, <<"from langgraph ">> \o query,
              <<"builder.compile ">> \o query, <<"StateGraph ">> \o query >>
      ELSE IF query_type = Langchain
      THEN << <<"LangChain Python ">> \o query, <<"from langchain ">> \o query >>
      ELSE IF query_type = CodeExample
      THEN << <<"Python code example ">> \o query, <<"def ">> \o query >>
      ELSE <<>> )

VECTORSTORE_UNAVAILABLE ==
    <<"Vector store not available. Please run: python scripts/prepare_data.py">>

WEB_HEADER == "## Web Search Results\n"
DOC_HEADER == "## Documentation\n"

\* state.get("web_results", []): None and [] are both falsy
web_results_of(s) == IF s.web_results = None THEN <<>> ELSE Val(s.web_results)

\* Mutant: the documentation section is put first
build_context_docs_first(web_results, docs) ==
    LET web_part == IF web_results # <<>>
                    THEN << <<WEB_HEADER>> \o Join(web_results, <<"\n\n">>) >>
                    ELSE <<>>
        doc_part == IF docs # <<>>
                    THEN << <<DOC_HEADER>> \o format_docs(docs) >>
                    ELSE <<>>
        context_parts == doc_part \o web_part
    IN  IF context_parts # <<>>
        THEN Join(context_parts, <<"\n\n">>)
        ELSE <<"No relevant information found.">>

\* The context of retriever: the sections that have content, web first
build_context(web_results, docs) ==
    LET web_part == IF web_results # <<>>
                    THEN << <<WEB_HEADER>> \o Join(web_results, <<"\n\n">>) >>
                    ELSE <<>>
        doc_part == IF docs # <<>>
                    THEN << <<DOC_HEADER>> \o format_docs(docs) >>
                    ELSE <<>>
        context_parts == web_part \o doc_part
    IN  IF context_parts # <<>>
        THEN Join(context_parts, <<"\n\n">>)
        ELSE <<"No relevant information found.">>

\* Mutant: the short-circuit builds the context from the web results
unavailable_patch_keeps_web ==
    [ retrieved_docs |-> Some(<<>>),
      context |-> Some(build_context(web_results_of(state), <<>>)) ]

\* Mutant: the short-circuit returns the context only
unavailable_patch_context_only == [context |-> Some(VECTORSTORE_UNAVAILABLE)]

\* The patch retriever returns when the vector store is not available
unavailable_patch ==
    [retrieved_docs |-> Some(<<>>), context |-> Some(VECTORSTORE_UNAVAILABLE)]

\* Mutant: the cut is made before the ranking
retriever_patch_cut_before_ranking(s, found) ==
    LET docs == prioritize_docs(FirstN(found, TOP_K_RESULTS), Val(s.query_type))
    IN  [ retrieved_docs |-> Some(docs),
          context |-> Some(build_context(web_results_of(s), docs)) ]

\* The patch retriever returns after the search
retriever_patch(s, found) ==
    LET docs == FirstN(prioritize_docs(found, Val(s.query_type)), TOP_K_RESULTS)
    IN  [ retrieved_docs |-> Some(docs),
          context |-> Some(build_context(web_results_of(s), docs)) ]

\* The fields of the state retriever reads
retriever_reads == {"query", "query_type", "web_results"}

\* retriever up to the first similarity search: get_vectorstore, the
\* short-circuit on its None, the variant list
retriever ==
    LET got == get_vectorstore(vectorstore_cache, index_on_disk, loads + 1)
    IN  /\ pc = "retriever"
        /\ got.loaded => loads < MaxLoads
        /\ trace' = Append(trace, "retriever")
        /\ vectorstore_cache' = got.cache
        /\ loads' = IF got.loaded THEN loads + 1 ELSE loads
        /\ calls' = IF got.loaded THEN [calls EXCEPT !.load = @ + 1] ELSE calls
        /\ last' = Last("retriever", "get_vectorstore",
                        IF got.raised THEN "raised" ELSE "ok", <<>>, got.value)
        /\ UNCHANGED <<args, index_on_disk, graph, threadVars, modeVars>>
        /\ IF got.raised
           THEN /\ Raise("retriever", "RuntimeError", "load_vectorstore")
                /\ UNCHANGED searchVars
           ELSE IF got.value = None
           THEN /\ Advance("retriever", unavailable_patch)
                /\ UNCHANGED searchVars
           ELSE /\ search_queries' =
                       build_search_queries(state.query, Val(state.query_type))
                /\ qi' = 0
                /\ seen_content' = {}
                /\ all_docs' = <<>>
                /\ fetched' = <<>>
                /\ pc' = "multi_query_search"
                /\ UNCHANGED <<state, result, error>>

\* One iteration of multi_query_search's loop over the variants: a
\* similarity search and the deduplication of its results; after the last
\* variant, or at the cap, the rest of retriever (ranking, cut, context)
multi_query_search ==
    /\ pc = "multi_query_search"
    /\ qi < Len(search_queries)
    /\ calls' = [calls EXCEPT !.search = @ + 1]
    /\ qi' = qi + 1
    /\ UNCHANGED <<args, trace, search_queries, cacheVars, graph, threadVars, modeVars>>
    /\ \/ /\ Raise("retriever", "SearchError", "similarity_search")
          /\ last' = Last("retriever", "search", "raised", search_queries[qi + 1], <<>>)
          /\ UNCHANGED <<seen_content, all_docs, fetched>>
       \/ \E docs \in SearchResults :
            LET r == add_docs(docs, seen_content, all_docs, MAX_TOTAL_DOCS)
            IN  /\ last' = Last("retriever", "search", "ok", search_queries[qi + 1], docs)
                /\ seen_content' = r.seen
                /\ all_docs' = r.all_docs
                /\ UNCHANGED fetched
                /\ IF r.returned \/ qi + 1 = Len(search_queries)
                   THEN Advance("retriever", retriever_patch(state, r.all_docs))
                   ELSE UNCHANGED <<pc, state, result, error>>

----------------------------------------------------------------------------
(* nodes/retriever.py: multi_query_search called on its own, with any
   variant list *)

MqsQuery == Strip(ShortQuery)

\* Variant lists: none, one variant twice, the lists retriever builds
VariantLists ==
    {<<>>, <<MqsQuery, MqsQuery>>}
    \cup {build_search_queries(MqsQuery, t) : t \in VALID_QUERY_TYPES}

\* A document whose signature is that of ListD's first two, returned alone
ListE == << Doc(LongContent("3"), Some("langgraph")) >>

MqsResults == SearchResults \cup {ListE}

mqsFrame == <<args, state, result, error, trace, calls, last, cacheVars, graph, threadVars, modeVars>>

\* multi_query_search(vectorstore, queries, k_per_query): seen_content = set(),
\* all_docs = []
mqs_call ==
    /\ pc = "idle"
    /\ \E queries \in VariantLists :
         /\ search_queries' = queries
         /\ pc' = IF queries = <<>> THEN "mqs_returned" ELSE "mqs_search"
    /\ qi' = 0
    /\ seen_content' = {}
    /\ all_docs' = <<>>
    /\ fetched' = <<>>
    /\ UNCHANGED mqsFrame

\* One iteration of the loop over the variants
mqs_search ==
    /\ pc = "mqs_search"
    /\ qi < Len(search_queries)
    /\ qi' = qi + 1
    /\ UNCHANGED <<search_queries, mqsFrame>>
    /\ \/ /\ pc' = "mqs_raised"
          /\ UNCHANGED <<seen_content, all_docs, fetched>>
       \/ \E docs \in MqsResults :
            LET r == add_docs(docs, seen_content, all_docs, MAX_TOTAL_DOCS)
            IN  /\ seen_content' = r.seen
                /\ all_docs' = r.all_docs
                /\ fetched' = Append(fetched, [query |-> search_queries[qi + 1],
                                                docs |-> docs])
                /\ pc' = IF r.returned \/ qi + 1 = Len(search_queries)
                         THEN "mqs_returned" ELSE "mqs_search"

\* The caller takes the list or the exception
mqs_done ==
    /\ pc \in {"mqs_returned", "mqs_raised"}
    /\ pc' = "idle"
    /\ search_queries' = <<>>
    /\ qi' = 0
    /\ seen_content' = {}
    /\ all_docs' = <<>>
    /\ fetched' = <<>>
    /\ UNCHANGED mqsFrame

----------------------------------------------------------------------------
(* nodes/answer_generator.py *)

\* What the model may answer to the generation prompt
Answers == { <<"An answer.">>, <<>> }

UpperChar(c) ==
    IF \E i \in 1..26 : LowerCase[i] = c
    THEN UpperCase[CHOOSE i \in 1..26 : LowerCase[i] = c]
    ELSE c

\* str.capitalize()
Capitalize(s) ==
    [i \in 1..Len(s) |-> IF i = 1 THEN UpperChar(s[i]) ELSE LowerChar(s[i])]

format_message(msg) == Capitalize(msg.role) \o <<": ">> \o <<msg.content>>

\* Mutant: the first entries are formatted instead of the last
format_chat_history_first_entries(history) ==
    IF history = <<>>
    THEN <<"No previous conversation.">>
    ELSE LET recent == FirstN(history, CHAT_HISTORY_CONTEXT_LENGTH)
         IN  Join([i \in 1..Len(recent) |-> format_message(recent[i])], <<"\n">>)

format_chat_history(history) ==
    IF history = <<>>
    THEN <<"No previous conversation.">>
    ELSE LET recent == LastN(history, CHAT_HISTORY_CONTEXT_LENGTH)
         IN  Join([i \in 1..Len(recent) |-> format_message(recent[i])], <<"\n">>)

SYSTEM_PROMPT(context, chat_history) ==
    <<"SYSTEM_PROMPT ... === DOCUMENTATION CONTEXT (USE THIS!) ===\n">> \o context
    \o <<"\n=== END CONTEXT ===\n\nChat History:\n">> \o chat_history \o <<"\n">>

generation_prompt(s) ==
    SYSTEM_PROMPT(Val(s.context), format_chat_history(s.chat_history))
    \o <<"\n\nUser Question: ">> \o s.query

PROVIDER_UNAVAILABLE == "Error: LLM provider unavailable. "
UNABLE_TO_GENERATE == "Error: Unable to generate response. "

\* Mutant: only "except ProviderError"
generator_catches_provider_only(type) == type = "ProviderError"

\* Whether answer_generator's except clauses catch an exception class
generator_catches(type) == type \in LLMClientErrors

\* Mutant: one error text for every exception caught
error_response_provider_text(type, msg) == <<PROVIDER_UNAVAILABLE, msg>>

\* The response answer_generator returns for an exception it catches
error_response(type, msg) ==
    IF type = "ProviderError"
    THEN <<PROVIDER_UNAVAILABLE, msg>>
    ELSE <<UNABLE_TO_GENERATE, msg>>

\* The fields of the state answer_generator reads
answer_generator_reads == {"query", "context", "chat_history"}

answer_generator ==
    /\ pc = "answer_generator"
    /\ trace' = Append(trace, "answer_generator")
    /\ UNCHANGED <<args, searchVars, cacheVars, graph, threadVars, modeVars>>
    /\ \E client \in ClientOutcomes :
         IF client # "ok"
         THEN /\ last' = Last("answer_generator", "client", client, <<>>, <<>>)
              /\ UNCHANGED calls
              /\ IF generator_catches(client)
                 THEN Advance("answer_generator",
                              [response |-> Some(error_response(client, client))])
                 ELSE Raise("answer_generator", client, "UnifiedLLMClient()")
         ELSE /\ calls' = [calls EXCEPT !.llm = @ + 1]
              /\ \/ \E kind \in LlmFailures :
                      /\ last' = Last("answer_generator", "llm", kind,
                                      generation_prompt(state), <<>>)
                      /\ IF generator_catches(invoke_raises(kind))
                         THEN Advance("answer_generator",
                                [response |->
                                   Some(error_response(invoke_raises(kind), kind))])
                         ELSE Raise("answer_generator", invoke_raises(kind), "invoke")
                 \/ \E response \in Answers :
                      /\ last' = Last("answer_generator", "llm", "ok",
                                      generation_prompt(state), response)
                      /\ Advance("answer_generator", [response |-> Some(response)])

----------------------------------------------------------------------------
(* main.py: the caller takes the answer or the exception and goes on *)

NoArgs == [query |-> <<>>, mode |-> <<>>, chat_history |-> None, caller_history |-> None]
NoState == initial_state(<<>>, <<>>, None)

next_call ==
    /\ pc \in {"returned", "raised"}
    /\ pc' = "idle"
    /\ args' = NoArgs
    /\ state' = NoState
    /\ result' = None
    /\ error' = None
    /\ trace' = <<>>
    /\ calls' = NoCalls
    /\ last' = NoLast
    /\ search_queries' = <<>>
    /\ qi' = 0
    /\ seen_content' = {}
    /\ all_docs' = <<>>
    /\ fetched' = <<>>
    /\ UNCHANGED <<cacheVars, graph, threadVars, modeVars>>

----------------------------------------------------------------------------
(* Threads calling get_vectorstore concurrently *)

NThreads == 2       \* threads calling get_vectorstore
MaxCalls == 2       \* calls of get_vectorstore per thread

Threads == 1..NThreads

t_call(t) ==
    /\ tpc[t] = "idle"
    /\ tcalls[t] < MaxCalls
    /\ tcalls' = [tcalls EXCEPT ![t] = @ + 1]
    /\ tpc' = [tpc EXCEPT ![t] = "check"]
    /\ tret' = [tret EXCEPT ![t] = [done |-> FALSE, raised |-> FALSE, value |-> None]]
    /\ UNCHANGED <<lock, cacheVars>>

\* if _vectorstore_cache is None:
t_check(t) ==
    /\ tpc[t] = "check"
    /\ tpc' = [tpc EXCEPT ![t] = IF must_load(vectorstore_cache)
                                  THEN "acquire" ELSE "return"]
    /\ UNCHANGED <<tret, tcalls, lock, cacheVars>>

\* with _vectorstore_lock:
t_acquire(t) ==
    /\ tpc[t] = "acquire"
    /\ lock = 0
    /\ lock' = t
    /\ tpc' = [tpc EXCEPT ![t] = "recheck"]
    /\ UNCHANGED <<tret, tcalls, cacheVars>>

\* if _vectorstore_cache is None: (inside the lock)
t_recheck(t) ==
    /\ tpc[t] = "recheck"
    /\ tpc' = [tpc EXCEPT ![t] = IF must_load_locked(vectorstore_cache)
                                  THEN "load" ELSE "release"]
    /\ UNCHANGED <<tret, tcalls, lock, cacheVars>>

\* _vectorstore_cache = load_vectorstore(); an exception leaves the with
\* block, which releases the lock, and the call
t_load(t) ==
    LET loaded == load_vectorstore(index_on_disk, loads + 1)
    IN  /\ tpc[t] = "load"
        /\ loads < MaxLoads
        /\ loads' = loads + 1
        /\ UNCHANGED <<tcalls, index_on_disk>>
        /\ IF loaded.raised
           THEN /\ lock' = IF lock = t THEN 0 ELSE lock
                /\ tpc' = [tpc EXCEPT ![t] = "idle"]
                /\ tret' = [tret EXCEPT ![t] =
                              [done |-> TRUE, raised |-> TRUE, value |-> None]]
                /\ UNCHANGED vectorstore_cache
           ELSE /\ vectorstore_cache' = loaded.value
                /\ tpc' = [tpc EXCEPT ![t] = "release"]
                /\ UNCHANGED <<tret, lock>>

\* the end of the with block
t_release(t) ==
    /\ tpc[t] = "release"
    /\ lock' = IF lock = t THEN 0 ELSE lock
    /\ tpc' = [tpc EXCEPT ![t] = "return"]
    /\ UNCHANGED <<tret, tcalls, cacheVars>>

\* return _vectorstore_cache
t_return(t) ==
    /\ tpc[t] = "return"
    /\ tret' = [tret EXCEPT ![t] =
                  [done |-> TRUE, raised |-> FALSE, value |-> vectorstore_cache]]
    /\ tpc' = [tpc EXCEPT ![t] = "idle"]
    /\ UNCHANGED <<tcalls, lock, cacheVars>>

----------------------------------------------------------------------------
(* graph.py: threads of one process inside get_graph; a compiled graph is
   identified by the execution of build_graph that made it *)

\* A thread enters get_graph
g_call(t) ==
    /\ gpc[t] = "idle"
    /\ gcalls[t] < MaxCalls
    /\ gcalls' = [gcalls EXCEPT ![t] = @ + 1]
    /\ gpc' = [gpc EXCEPT ![t] = "check"]
    /\ gret' = [gret EXCEPT ![t] = [done |-> FALSE, value |-> None]]
    /\ UNCHANGED <<graph, builds>>

\* if _graph is None:
g_check(t) ==
    /\ gpc[t] = "check"
    /\ gpc' = [gpc EXCEPT ![t] = IF graph = None THEN "build" ELSE "return"]
    /\ UNCHANGED <<graph, gret, gcalls, builds>>

\* build_graph() runs and gives a new compiled graph
g_build(t) ==
    /\ gpc[t] = "build"
    /\ builds' = builds + 1
    /\ gret' = [gret EXCEPT ![t] = [done |-> FALSE, value |-> Some(builds + 1)]]
    /\ gpc' = [gpc EXCEPT ![t] = "store"]
    /\ UNCHANGED <<graph, gcalls>>

\* _graph = (the graph just built)
g_store(t) ==
    /\ gpc[t] = "store"
    /\ graph' = gret[t].value
    /\ gpc' = [gpc EXCEPT ![t] = "return"]
    /\ UNCHANGED <<gret, gcalls, builds>>

\* return _graph
g_return(t) ==
    /\ gpc[t] = "return"
    /\ gret' = [gret EXCEPT ![t] = [done |-> TRUE, value |-> graph]]
    /\ gpc' = [gpc EXCEPT ![t] = "idle"]
    /\ UNCHANGED <<graph, gcalls, builds>>

----------------------------------------------------------------------------
(* config.py: the mode flag and its accessors, called from several threads *)

MaxModeCalls == 3   \* calls of get_mode and set_mode the model follows

\* Arguments of set_mode: valid, valid in another case, invalid
ModeArguments == {Offline, <<"O","n","l","i","n","e">>, <<"h","y","b","r","i","d">>}

\* Calls of get_mode and set_mode started so far
RECURSIVE ModeCallsOf(_)
ModeCallsOf(n) == IF n = 0 THEN 0 ELSE mcalls[n] + ModeCallsOf(n - 1)

\* The environment variable AGENT_MODE: unset, or set to some text
EnvModes == {None, Some(<<"O","N","L","I","N","E">>), Some(<<"H","y","b","r","i","d">>)}

\* os.getenv("AGENT_MODE", "offline").lower()
import_mode(env) == Lower(IF env = None THEN Offline ELSE Val(env))

\* set_mode's test: the message of the ValueError, or None
set_mode_error(mode) ==
    IF Lower(mode) \notin {Offline, Online}
    THEN Some("Mode must be 'offline' or 'online'")
    ELSE None

\* Mutant: the argument is stored as given
set_mode_value_as_given(mode) == mode

\* The value set_mode assigns
set_mode_value(mode) == Lower(mode)

NoOutcome == [kind |-> "none", value |-> <<>>]

\* return AGENT_MODE
get_mode(t) ==
    /\ mpc[t] = "idle"
    /\ ModeCallsOf(NThreads) < MaxModeCalls
    /\ mcalls' = [mcalls EXCEPT ![t] = @ + 1]
    /\ mret' = [mret EXCEPT ![t] = [kind |-> "value", value |-> AGENT_MODE]]
    /\ UNCHANGED <<AGENT_MODE, mode_at_import, mode_set, mpc, marg>>

\* set_mode up to its assignment: the test and the raise
set_mode(t, mode) ==
    /\ mpc[t] = "idle"
    /\ ModeCallsOf(NThreads) < MaxModeCalls
    /\ mcalls' = [mcalls EXCEPT ![t] = @ + 1]
    /\ marg' = [marg EXCEPT ![t] = mode]
    /\ UNCHANGED <<AGENT_MODE, mode_at_import>>
    /\ IF set_mode_error(mode) # None
       THEN /\ mret' = [mret EXCEPT ![t] = [kind |-> "raised", value |-> mode]]
            /\ UNCHANGED <<mpc, mode_set>>
       ELSE /\ mpc' = [mpc EXCEPT ![t] = "assign"]
            /\ mode_set' = mode_set \cup {Lower(mode)}
            /\ mret' = [mret EXCEPT ![t] = NoOutcome]

\* AGENT_MODE = mode.lower()
set_mode_assign(t) ==
    /\ mpc[t] = "assign"
    /\ AGENT_MODE' = set_mode_value(marg[t])
    /\ mpc' = [mpc EXCEPT ![t] = "idle"]
    /\ mret' = [mret EXCEPT ![t] = [kind |-> "set", value |-> marg[t]]]
    /\ UNCHANGED <<mode_at_import, mode_set, marg, mcalls>>

----------------------------------------------------------------------------
(* Specifications *)

\* The process once its modules are imported, AGENT_MODE being env in the
\* environment
InitEnv(env) ==
    /\ AGENT_MODE = import_mode(env)
    /\ mode_at_import = import_mode(env)
    /\ mode_set = {}
    /\ mpc = [t \in Threads |-> "idle"]
    /\ marg = [t \in Threads |-> <<>>]
    /\ mret = [t \in Threads |-> NoOutcome]
    /\ mcalls = [t \in Threads |-> 0]
    /\ pc = "idle"
    /\ args = NoArgs
    /\ state = NoState
    /\ result = None
    /\ error = None
    /\ trace = <<>>
    /\ calls = NoCalls
    /\ last = NoLast
    /\ search_queries = <<>>
    /\ qi = 0
    /\ seen_content = {}
    /\ all_docs = <<>>
    /\ fetched = <<>>
    /\ vectorstore_cache = None
    /\ loads = 0
    /\ index_on_disk \in {"present", "absent", "corrupt"}
    /\ graph = None
    /\ tpc = [t \in Threads |-> "idle"]
    /\ tret = [t \in Threads |-> [done |-> FALSE, raised |-> FALSE, value |-> None]]
    /\ tcalls = [t \in Threads |-> 0]
    /\ lock = 0
    /\ gpc = [t \in Threads |-> "idle"]
    /\ gret = [t \in Threads |-> [done |-> FALSE, value |-> None]]
    /\ gcalls = [t \in Threads |-> 0]
    /\ builds = 0

\* A process started without AGENT_MODE in its environment
Init == InitEnv(None)

Call == \E input \in Inputs : run_agent(input[1], input[2], input[3])

\* One process answering one call after another
Next ==
    \/ Call
    \/ query_classifier
    \/ web_search
    \/ retriever
    \/ multi_query_search
    \/ answer_generator
    \/ next_call

Spec == Init /\ [][Next]_vars

\* Threads of one process inside get_vectorstore
NextVS ==
    \E t \in Threads :
        /\ \/ t_call(t)
           \/ t_check(t)
           \/ t_acquire(t)
           \/ t_recheck(t)
           \/ t_load(t)
           \/ t_release(t)
           \/ t_return(t)
        /\ UNCHANGED <<runVars, searchVars, graph, modeVars, getVars>>

SpecVS == Init /\ [][NextVS]_vars

\* One process calling multi_query_search
NextMQS ==
    \/ mqs_call
    \/ mqs_search
    \/ mqs_done

SpecMQS == Init /\ [][NextMQS]_vars

\* The interactive loop answers a query in the mode of the moment:
\* run_agent(query, mode=get_mode(), chat_history=None)
run_interactive == run_agent(ShortQuery, AGENT_MODE, None)

\* A process whose index has not been prepared
InitRunMode == Init /\ index_on_disk = "absent"

\* The interactive loop answering queries while another thread calls
\* set_mode
NextRunMode ==
    \/ run_interactive
    \/ query_classifier
    \/ web_search
    \/ retriever
    \/ answer_generator
    \/ next_call
    \/ \E t \in {NThreads} :
          /\ \/ \E mode \in ModeArguments : set_mode(t, mode)
             \/ set_mode_assign(t)
          /\ UNCHANGED <<runVars, searchVars, cacheVars, graph, threadVars>>

SpecRunMode == InitRunMode /\ [][NextRunMode]_vars

\* Threads of one process inside get_graph
NextGraph ==
    \E t \in Threads :
        /\ \/ g_call(t)
           \/ g_check(t)
           \/ g_build(t)
           \/ g_store(t)
           \/ g_return(t)
        /\ UNCHANGED <<runVars, searchVars, cacheVars, modeVars, tpc, tret, tcalls, lock>>

SpecGraph == Init /\ [][NextGraph]_vars

\* A process started with any AGENT_MODE in its environment
InitMode == \E env \in EnvModes : InitEnv(env)

\* Threads of one process calling get_mode and set_mode
NextMode ==
    \E t \in Threads :
        /\ \/ get_mode(t)
           \/ \E mode \in ModeArguments : set_mode(t, mode)
           \/ set_mode_assign(t)
        /\ UNCHANGED <<runVars, searchVars, cacheVars, graph, threadVars>>

SpecMode == InitMode /\ [][NextMode]_vars

----------------------------------------------------------------------------
(* Properties *)

IsPrefix(s, t) == Len(s) <= Len(t) /\ SubSeq(t, 1, Len(s)) = s

InCall == pc # "idle"
ValidModes == {Offline, Online}
EmptyQuery(q) == Strip(q) = <<>>
ValidArgs ==
    /\ ~EmptyQuery(args.query)
    /\ Len(Strip(args.query)) <= MAX_QUERY_LENGTH
    /\ args.mode \in ValidModes
RaisedBy(node) == pc = "raised" /\ error # None /\ Val(error).node = node
ValidationRaised ==
    /\ RaisedBy("run_agent")
    /\ Val(error).type = "ValueError"
    /\ result = None

\* C1 as stated: every call whose query is longer than MAX_QUERY_LENGTH
\* characters, or empty or whitespace-only, fails with the ValueError of
\* run_agent's validation.
C1_LongOrEmptyQueryRaises ==
    (InCall /\ (Len(args.query) > MAX_QUERY_LENGTH \/ EmptyQuery(args.query)))
        => ValidationRaised

\* C1 amended: every call whose query, once its leading and trailing
\* whitespace is stripped, is longer than MAX_QUERY_LENGTH characters or is
\* empty fails with the ValueError of run_agent's validation.
C1_StrippedLongOrEmptyQueryRaises ==
    (InCall /\ (Len(Strip(args.query)) > MAX_QUERY_LENGTH \/ EmptyQuery(args.query)))
        => ValidationRaised

C1_Witness ==
    /\ ValidationRaised
    /\ Len(Strip(args.query)) > MAX_QUERY_LENGTH
    /\ Val(error).msg = "Query too long"

\* C2: a call with an empty query, an over-length query or a mode other
\* than 'offline'/'online' ends in the validation error with no node run and
\* no capability invoked during the call: no model call, no web search, no
\* index load, no similarity search.
C2_ValidationBeforeCapabilities ==
    /\ (InCall /\ ~ValidArgs) =>
          /\ ValidationRaised
          /\ calls = NoCalls
          /\ trace = <<>>
    /\ ValidationRaised => (calls = NoCalls /\ trace = <<>>)

C2_Witness ==
    /\ ValidationRaised
    /\ ~EmptyQuery(args.query)
    /\ args.mode \notin ValidModes
    /\ calls = NoCalls
    /\ vectorstore_cache # None

\* C3 as stated: every call with a valid query and a valid mode returns an
\* answer string and raises nothing.
C3_ValidCallAlwaysReturns ==
    (ValidArgs /\ pc \in {"returned", "raised"})
        => (pc = "returned" /\ result # None /\ error = None)

\* C3 amended: a call with a valid query and a valid mode returns an answer
\* string unless an exception propagates from query_classifier or from
\* retriever, or an exception outside the classes web_search and
\* answer_generator catch; the failures those two nodes catch never make
\* the call raise.
C3_ValidCallReturnsOrPropagates ==
    (ValidArgs /\ pc \in {"returned", "raised"}) =>
        IF pc = "returned"
        THEN result # None /\ error = None /\ result = state.response
        ELSE /\ error # None
             /\ result = None
             /\ \/ Val(error).node \in {"query_classifier", "retriever"}
                \/ /\ Val(error).node = "web_search"
                   /\ Val(error).type \notin
                        {"RatelimitException", "TimeoutException", "DDGSException",
                         "RequestException", "TimeoutError", "ConnectionError"}
                \/ /\ Val(error).node = "answer_generator"
                   /\ Val(error).type \notin
                        {"ProviderError", "APIKeyError", "ConfigurationError"}

C3_Witness ==
    /\ pc = "returned"
    /\ ValidArgs
    /\ args.mode = Online
    /\ state.web_results = Some(<<>>)
    /\ last.node = "answer_generator"
    /\ last.out = "TimeoutError"
    /\ result # None

ExpectedTrace(mode) ==
    IF mode = Online
    THEN <<"query_classifier", "web_search", "retriever", "answer_generator">>
    ELSE <<"query_classifier", "retriever", "answer_generator">>

\* C4: in every run the nodes execute in the order query_classifier, then
\* web_search exactly when the mode is 'online', then retriever, then
\* answer_generator, then END; no node executes twice, and the node about to
\* execute is the next one of that order.
C4_NodeOrder ==
    (InCall /\ ~ValidationRaised) =>
        /\ IsPrefix(trace, ExpectedTrace(args.mode))
        /\ pc = "returned" => trace = ExpectedTrace(args.mode)
        /\ pc \in {"query_classifier", "web_search", "retriever", "answer_generator"}
              => Append(trace, pc) = SubSeq(ExpectedTrace(args.mode), 1, Len(trace) + 1)
        /\ pc = "multi_query_search" => trace[Len(trace)] = "retriever"
        /\ ("web_search" \in Range(trace)) => args.mode = Online

C4_Witness ==
    /\ pc = "returned"
    /\ args.mode = Online
    /\ trace = <<"query_classifier", "web_search", "retriever", "answer_generator">>

C5_Failures ==
    {"RatelimitException", "TimeoutException", "DDGSException",
     "RequestException", "TimeoutError", "ConnectionError"}

WebSearched(kinds) == last.node = "web_search" /\ last.cap = "web" /\ last.out \in kinds

\* C5 as stated: after any failure of the web-search call, web_search has
\* raised nothing and returned web_results = [], and the run goes on to
\* retriever.
C5_AnyWebFailureDegrades ==
    WebSearched(WebFailures) =>
        (pc = "retriever" /\ error = None /\ state.web_results = Some(<<>>))

\* C5 amended: after a failure of the web-search call of a class web_search
\* catches (rate limit, timeout, provider error, request, timeout or
\* connection error), web_search has raised nothing and returned
\* web_results = [], and the run goes on to retriever; a context assembled
\* with web_results = [] has no web-results section.
C5_CaughtWebFailureDegrades ==
    /\ WebSearched(C5_Failures) =>
          (pc = "retriever" /\ error = None /\ state.web_results = Some(<<>>))
    /\ (InCall /\ state.web_results = Some(<<>>) /\ state.context # None) =>
          WEB_HEADER \notin Range(Val(state.context))

C5_Witness ==
    /\ WebSearched({"RatelimitException"})
    /\ pc = "retriever"
    /\ state.web_results = Some(<<>>)

C6_Failures ==
    {"RequestException", "HTTPError", "TimeoutError", "ConnectionError", "ValueError"}

\* C6: after a provider-level failure of the model call made by
\* answer_generator (transport error, timeout, connection failure, invalid
\* input), the node has raised nothing, its response is the provider error
\* text, run_agent returns it, and the node invoked the model once (the
\* second call of the run, after the classifier's).
C6_ProviderFailureBecomesAnswer ==
    (last.node = "answer_generator" /\ last.cap = "llm" /\ last.out \in C6_Failures) =>
        /\ pc = "returned"
        /\ error = None
        /\ state.response # None
        /\ Val(state.response) = <<PROVIDER_UNAVAILABLE, last.out>>
        /\ result = state.response
        /\ calls.llm = 2

C6_Witness ==
    /\ last.node = "answer_generator"
    /\ last.out = "ConnectionError"
    /\ pc = "returned"
    /\ Val(result)[1] = PROVIDER_UNAVAILABLE

\* C7: once query_classifier has run, query_type is one of langgraph,
\* langchain, code_example, general: the model's output trimmed and
\* lowercased when that is one of them, langgraph otherwise.
C7_QueryTypeValid ==
    /\ state.query_type # None => Val(state.query_type) \in VALID_QUERY_TYPES
    /\ (last.node = "query_classifier" /\ last.cap = "llm" /\ last.out = "ok") =>
          /\ pc # "raised"
          /\ state.query_type # None
          /\ LET token == Lower(Strip(last.output))
             IN  Val(state.query_type) =
                    IF token \in {Langgraph, Langchain, CodeExample, General}
                    THEN token ELSE Langgraph
          /\ last.output = <<"C","O","D","E","_","E","X","A","M","P","L","E">>
                => state.query_type = Some(CodeExample)
          /\ last.output = <<"G","e","n","e","r","a","l","\t">>
                => state.query_type = Some(General)
          /\ last.output \in {<<"u","n","s","u","r","e">>, <<>>,
                              <<"l","a","n","g"," ","g","r","a","p","h">>}
                => state.query_type = Some(Langgraph)

C7_Witness ==
    /\ last.node = "query_classifier"
    /\ last.output = <<" ","L","a","n","g","C","h","a","i","n","\n">>
    /\ state.query_type = Some(Langchain)

Returned(t) == tret[t].done /\ ~tret[t].raised

\* C8: with the on-disk index present, whatever the interleaving of the
\* threads' calls, load_vectorstore is executed at most once, and exactly
\* once as soon as a call has returned; every call returns the one handle
\* that load produced; and a cache that is set is never assigned again.
C8_LoadedOnceSameHandle ==
    /\ [](index_on_disk = "present" =>
            /\ loads <= 1
            /\ \A t \in Threads :
                 tret[t].done =>
                    /\ ~tret[t].raised
                    /\ loads = 1
                    /\ tret[t].value = Some(1)
                    /\ tret[t].value = vectorstore_cache)
    /\ [][vectorstore_cache # None => vectorstore_cache' = vectorstore_cache]_vars

C8_Witness ==
    /\ index_on_disk = "present"
    /\ \E t \in Threads : tpc[t] = "recheck" /\ vectorstore_cache # None
    /\ \E t \in Threads : Returned(t) /\ tret[t].value = Some(1)

\* C9: across the calls of get_vectorstore in one process, load_vectorstore
\* is executed at most once, whether the on-disk index is present or absent.
C9_LoadAtMostOnce ==
    index_on_disk \in {"present", "absent"} => loads <= 1

\* C10: when get_vectorstore returns None, retriever issues no similarity
\* search and raises nothing; its patch is retrieved_docs = [] and the fixed
\* advisory context, and the run goes on to answer_generator.
C10_UnavailableShortCircuit ==
    /\ (last.node = "retriever" /\ last.cap = "get_vectorstore"
          /\ last.out = "ok" /\ last.output = None) =>
          /\ pc = "answer_generator"
          /\ error = None
          /\ calls.search = 0
          /\ state.retrieved_docs = Some(<<>>)
          /\ state.context = Some(VECTORSTORE_UNAVAILABLE)
    /\ (InCall /\ state.context # None /\ vectorstore_cache = None) =>
          /\ calls.search = 0
          /\ state.retrieved_docs = Some(<<>>)
          /\ state.context = Some(VECTORSTORE_UNAVAILABLE)

C10_Witness ==
    /\ pc = "answer_generator"
    /\ index_on_disk = "absent"
    /\ vectorstore_cache = None
    /\ state.context = Some(VECTORSTORE_UNAVAILABLE)
    /\ state.retrieved_docs = Some(<<>>)
    /\ calls.search = 0
    /\ calls.load = 1

\* The first 200 characters of a document's content
Signature(doc) ==
    IF Len(doc.page_content) > 200
    THEN SubSeq(doc.page_content, 1, 200)
    ELSE doc.page_content

MqsActive == pc \in {"mqs_search", "mqs_returned", "mqs_raised"}

\* C11: whatever the variant list and whatever the searches return, the
\* list multi_query_search holds, and the one it returns, has at most 15
\* documents and no two of them have the same first 200 characters.
C11_CapAndDistinctSignatures ==
    MqsActive =>
        /\ Len(all_docs) <= MAX_TOTAL_DOCS
        /\ \A i, j \in 1..Len(all_docs) :
              i # j => Signature(all_docs[i]) # Signature(all_docs[j])

C11_Witness ==
    /\ pc = "mqs_returned"
    /\ Len(all_docs) = MAX_TOTAL_DOCS
    /\ \E i \in 1..Len(fetched) : fetched[i].docs = ListD
    /\ \E i \in 1..Len(fetched) : fetched[i].docs = ListB

\* The position of a document's source in the category's priority list;
\* one past the list for a source not in it and for no source
PriorityIndex(doc, query_type) ==
    LET listed == SOURCE_PRIORITY(query_type)
    IN  IF doc.source # None /\ \E i \in 1..Len(listed) : listed[i] = Val(doc.source)
        THEN CHOOSE i \in 1..Len(listed) : listed[i] = Val(doc.source)
        ELSE Len(listed) + 1

PositionIn(docs, doc) == CHOOSE k \in 1..Len(docs) : docs[k] = doc

\* The retriever has the accumulator of a finished multi_query_search
Retrieved ==
    /\ pc \in {"answer_generator", "returned", "raised"}
    /\ trace # <<>>
    /\ trace[Len(trace)] \in {"retriever", "answer_generator"}
    /\ state.retrieved_docs # None
    /\ vectorstore_cache # None

\* C12: prioritize_docs applied to the accumulator (whose documents are
\* pairwise different) returns the same documents, ordered by ascending
\* priority index for the category, unlisted and missing sources last, and
\* two documents of equal priority index keep their input order.
C12_StableByPriority ==
    (state.query_type # None /\ pc \in {"multi_query_search", "answer_generator",
                                         "returned", "raised"}) =>
        LET query_type == Val(state.query_type)
            ranked == prioritize_docs(all_docs, query_type)
        IN  /\ Len(ranked) = Len(all_docs)
            /\ Range(ranked) = Range(all_docs)
            /\ \A i, j \in 1..Len(ranked) :
                  i < j =>
                    /\ PriorityIndex(ranked[i], query_type)
                          <= PriorityIndex(ranked[j], query_type)
                    /\ PriorityIndex(ranked[i], query_type)
                          = PriorityIndex(ranked[j], query_type)
                        => PositionIn(all_docs, ranked[i]) < PositionIn(all_docs, ranked[j])

C12_Witness ==
    /\ Retrieved
    /\ state.query_type = Some(Langchain)
    /\ Len(all_docs) = MAX_TOTAL_DOCS
    /\ prioritize_docs(all_docs, Langchain) # all_docs
    /\ \E i, j \in 1..Len(all_docs) :
          /\ i < j
          /\ all_docs[i].source = None
          /\ all_docs[j].source = Some("other")

LongHistory ==
    args.chat_history # None /\ Len(Val(args.chat_history)) > MAX_CHAT_HISTORY

\* The last n entries of a history of more than n entries, in order
LastEntries(history, n) == [i \in 1..n |-> history[Len(history) - n + i]]

\* One "Role: content" line per entry
HistoryLines(history) ==
    Join([i \in 1..Len(history) |-> format_message(history[i])], <<"\n">>)

\* The generation prompt of the run with a given history text
PromptWith(history_text) ==
    SYSTEM_PROMPT(Val(state.context), history_text)
        \o <<"\n\nUser Question: ">> \o state.query

GenerationCalled == last.node = "answer_generator" /\ last.cap = "llm"

\* C13 as stated: for a history longer than MAX_CHAT_HISTORY, the history
\* text of the generated prompt is formatted from exactly the last 20
\* entries, in order.
C13_PromptFormatsLastTwenty ==
    (GenerationCalled /\ LongHistory) =>
        last.input =
            PromptWith(HistoryLines(LastEntries(Val(args.chat_history), MAX_CHAT_HISTORY)))

\* C13 amended: for a history longer than MAX_CHAT_HISTORY, the run's
\* state holds exactly the last 20 entries, in order, and the history text
\* of the generated prompt is formatted from the last 6 of them.
C13_StateKeepsLastTwentyPromptLastSix ==
    /\ (InCall /\ ~ValidationRaised /\ LongHistory) =>
          state.chat_history = LastEntries(Val(args.chat_history), MAX_CHAT_HISTORY)
    /\ (GenerationCalled /\ LongHistory) =>
          last.input =
              PromptWith(HistoryLines(LastEntries(Val(args.chat_history),
                                                   CHAT_HISTORY_CONTEXT_LENGTH)))

C13_Witness ==
    /\ GenerationCalled
    /\ pc = "returned"
    /\ LongHistory
    /\ Len(Val(args.chat_history)) = MAX_CHAT_HISTORY + 5
    /\ Len(state.chat_history) = MAX_CHAT_HISTORY
    /\ state.chat_history[1] = Val(args.chat_history)[6]

RECURSIVE ConcatDocs(_)
ConcatDocs(results) ==
    IF results = <<>> THEN <<>> ELSE Head(results).docs \o ConcatDocs(Tail(results))

\* The documents of a list whose signature no earlier document of it has
FirstOccurrences(docs) ==
    LET first(k) == \A h \in 1..(k - 1) : Signature(docs[h]) # Signature(docs[k])
        F[k \in 0..Len(docs)] ==
            IF k = 0 THEN <<>>
            ELSE IF first(k) THEN Append(F[k - 1], docs[k]) ELSE F[k - 1]
    IN  F[Len(docs)]

CutAfter(docs, n) == IF Len(docs) > n THEN SubSeq(docs, 1, n) ELSE docs

\* C15: the list multi_query_search holds after each search, and the one it
\* returns, is the sequence of first occurrences of distinct signatures in
\* the concatenation of the results obtained (variants in list order,
\* results in returned order), cut after the 15th; a document it holds is
\* the earliest one with its signature.
C15_FirstOccurrencesInOrder ==
    (pc \in {"mqs_search", "mqs_returned"}) =>
        LET concat == ConcatDocs(fetched)
        IN  /\ all_docs = CutAfter(FirstOccurrences(concat), MAX_TOTAL_DOCS)
            /\ \A i \in 1..Len(all_docs) :
                  \E k \in 1..Len(concat) :
                      /\ concat[k] = all_docs[i]
                      /\ \A h \in 1..(k - 1) :
                            Signature(concat[h]) # Signature(all_docs[i])

C15_Witness ==
    /\ pc = "mqs_returned"
    /\ \E i, j \in 1..Len(fetched) :
          /\ i < j
          /\ fetched[i].docs = ListE
          /\ fetched[j].docs = ListD
    /\ ListE[1] \in Range(all_docs)
    /\ ListD[1] \notin Range(all_docs)
    /\ ListD[2] \notin Range(all_docs)

ClassifierCallFailed ==
    last.node = "query_classifier" /\ last.cap = "llm" /\ last.out \in LlmFailures

SearchFailed == last.node = "retriever" /\ last.cap = "search" /\ last.out = "raised"

\* C16: when the model call of query_classifier fails, or the similarity
\* search of one variant fails, the call of run_agent has raised that error
\* from that node with no answer; the failing capability was called once
\* (one model call; one search per variant tried), no later node has
\* executed, none of the fields later nodes produce is set, and nothing
\* executes after the raise.
C16_ClassifierAndSearchFailuresAbort ==
    /\ [](ClassifierCallFailed =>
            /\ RaisedBy("query_classifier")
            /\ Val(error).type \in {last.out, "ProviderError"}
            /\ result = None
            /\ trace = <<"query_classifier">>
            /\ calls.llm = 1
            /\ state.query_type = None
            /\ state.response = None)
    /\ [](SearchFailed =>
            /\ RaisedBy("retriever")
            /\ result = None
            /\ trace[Len(trace)] = "retriever"
            /\ "answer_generator" \notin Range(trace)
            /\ calls.search = qi
            /\ calls.llm = 1
            /\ state.retrieved_docs = None
            /\ state.context = None
            /\ state.response = None)
    /\ [][pc = "raised" => (pc' = "idle" /\ result' = None)]_vars

C16_Witness ==
    /\ SearchFailed
    /\ pc = "raised"
    /\ qi = 2
    /\ all_docs # <<>>
    /\ result = None

ConstructionFailed(node) ==
    last.node = node /\ last.cap = "client" /\ last.out # "ok"

\* C17 as stated: once a run of the workflow has started, no node fails on
\* missing credentials or configuration, and no such failure becomes the
\* run's answer.
C17_NoConfigurationFailureInRun ==
    (InCall /\ trace # <<>>) =>
        /\ ~ConstructionFailed("query_classifier")
        /\ ~ConstructionFailed("answer_generator")

\* C17 amended: the client is constructed inside the nodes, so missing
\* credentials or configuration fail inside the run: in query_classifier
\* the failure aborts the run before any model call; in answer_generator a
\* missing key (an LLMClientError) becomes the answer 'Error: Unable to
\* generate response.' and a missing configuration file aborts the run.
C17_ConstructionFailsInsideNodes ==
    /\ ConstructionFailed("query_classifier") =>
          /\ RaisedBy("query_classifier")
          /\ Val(error).type = last.out
          /\ calls.llm = 0
          /\ result = None
    /\ (ConstructionFailed("answer_generator") /\ last.out = "APIKeyError") =>
          /\ pc = "returned"
          /\ error = None
          /\ result = Some(<<UNABLE_TO_GENERATE, "APIKeyError">>)
          /\ calls.llm = 1
    /\ (ConstructionFailed("answer_generator") /\ last.out = "FileNotFoundError") =>
          /\ RaisedBy("answer_generator")
          /\ Val(error).type = "FileNotFoundError"
          /\ result = None

C17_Witness ==
    /\ ConstructionFailed("answer_generator")
    /\ last.out = "APIKeyError"
    /\ pc = "returned"
    /\ result = Some(<<UNABLE_TO_GENERATE, "APIKeyError">>)

ValidModeArgument(mode) == Lower(mode) \in {Offline, Online}

\* The values the flag may hold: the one it got at import, and the
\* lowercased argument of a set_mode call with a valid mode
ModeValues == {mode_at_import} \cup {v \in mode_set : v \in {Offline, Online}}

ModeReadsAndRaises ==
    /\ AGENT_MODE \in ModeValues
    /\ \A t \in Threads :
          /\ mret[t].kind = "value" => mret[t].value \in ModeValues
          /\ mret[t].kind = "raised" => ~ValidModeArgument(mret[t].value)
          /\ mret[t].kind = "set" => ValidModeArgument(mret[t].value)
          /\ mpc[t] = "assign" => ValidModeArgument(marg[t])

\* C18 as stated: a mutex serializes the writers, so at most one thread is
\* between set_mode's test and its assignment; an invalid set_mode raises;
\* every value read is the initial one or the lowercased argument of a
\* valid set_mode.
C18_MutexSerializesWriters ==
    /\ Cardinality({t \in Threads : mpc[t] = "assign"}) <= 1
    /\ ModeReadsAndRaises

\* C18 amended: with no mutex in get_mode and set_mode, set_mode with an
\* argument that is not 'offline' or 'online' (case-insensitive) raises and
\* leaves the flag unchanged, a valid one does not raise, and under every
\* interleaving the flag and every value read is the initial value or the
\* lowercased argument of a set_mode call with a valid mode.
C18_ModeFlagValues ==
    /\ []ModeReadsAndRaises
    /\ [][\A t \in Threads :
            (mcalls'[t] # mcalls[t] /\ mret'[t].kind = "raised")
                => AGENT_MODE' = AGENT_MODE]_vars

C18_Witness ==
    /\ \E t, u \in Threads :
          /\ mret[t].kind = "value"
          /\ mret[t].value = Online
          /\ mret[u].kind = "raised"
    /\ mode_at_import # Online
    /\ <<"O","n","l","i","n","e">> \in Range(marg)

\* C19: multi_query_search issues its searches one per variant in list
\* order (the searches issued are a prefix of the variant list); it issues
\* a further search only while the accumulator holds fewer than 15
\* documents; it returns before the end of the list only with 15
\* documents, reached within the results of the last search issued; and it
\* has inspected no result beyond the one that filled the accumulator.
C19_SearchesStopAtCap ==
    MqsActive =>
        /\ qi <= Len(search_queries)
        /\ Len(fetched) <= qi
        /\ \A i \in 1..Len(fetched) : fetched[i].query = search_queries[i]
        /\ seen_content = {Signature(all_docs[i]) : i \in 1..Len(all_docs)}
        /\ pc = "mqs_search" =>
              /\ Len(fetched) = qi
              /\ qi < Len(search_queries)
              /\ Len(all_docs) < MAX_TOTAL_DOCS
        /\ pc = "mqs_raised" => Len(fetched) = qi - 1
        /\ pc = "mqs_returned" =>
              /\ Len(fetched) = qi
              /\ qi < Len(search_queries) => Len(all_docs) = MAX_TOTAL_DOCS
              /\ Len(all_docs) = MAX_TOTAL_DOCS =>
                    Len(FirstOccurrences(ConcatDocs(SubSeq(fetched, 1, qi - 1))))
                        < MAX_TOTAL_DOCS

C19_Witness ==
    /\ pc = "mqs_returned"
    /\ Len(all_docs) = MAX_TOTAL_DOCS
    /\ Len(search_queries) = 6
    /\ qi = 2
    /\ fetched[2].docs = ListB
    /\ ListB[TOP_K_RESULTS] \notin Range(all_docs)

\* C20: once retriever has run with the index available, retrieved_docs
\* holds at most TOP_K_RESULTS documents, which are the first ones of the
\* accumulator ranked by priority (all of it when it has no more than 8),
\* and no document left out has a smaller priority index than one kept.
C20_FirstEightOfRanked ==
    Retrieved =>
        LET query_type == Val(state.query_type)
            ranked == prioritize_docs(all_docs, query_type)
            kept == Val(state.retrieved_docs)
        IN  /\ Len(kept) <= TOP_K_RESULTS
            /\ Len(kept) = IF Len(ranked) > TOP_K_RESULTS
                            THEN TOP_K_RESULTS ELSE Len(ranked)
            /\ \A i \in 1..Len(kept) : kept[i] = ranked[i]
            /\ \A d \in Range(all_docs) \ Range(kept) :
                  \A k \in Range(kept) :
                      PriorityIndex(d, query_type) >= PriorityIndex(k, query_type)

C20_Witness ==
    /\ Retrieved
    /\ pc = "answer_generator"
    /\ Len(all_docs) = MAX_TOTAL_DOCS
    /\ Len(Val(state.retrieved_docs)) = TOP_K_RESULTS
    /\ Val(state.retrieved_docs) # SubSeq(all_docs, 1, TOP_K_RESULTS)
    /\ state.query_type = Some(Langgraph)

----------------------------------------------------------------------------
(* The variant list, the context, the web entries, the history text *)

\* The prefixes of the category-specific variants, in order
CategoryPrefixes(query_type) ==
    CASE query_type = Langgraph ->
             <<"LangGraph Python ", "from langgraph ", "builder.compile ", "StateGraph ">>
      [] query_type = Langchain -> <<"LangChain Python ", "from langchain ">>
      [] query_type = CodeExample -> <<"Python code example ", "def ">>
      [] query_type = General -> <<>>

VariantsBuilt == pc = "multi_query_search"

\* C21 as stated: the variant list is the raw query, 'Python <query>' and
\* then 2 to 4 category-specific variants, 4 to 6 variants in total, for
\* every category.
C21_FourToSixVariants ==
    VariantsBuilt =>
        /\ search_queries[1] = state.query
        /\ search_queries[2] = <<"Python ">> \o state.query
        /\ Len(search_queries) - 2 \in 2..4
        /\ Len(search_queries) \in 4..6

\* C21 amended: the variant list is the raw query, 'Python <query>' and
\* then the category's variants in their fixed order: 4 for langgraph, 2
\* for langchain, 2 for code_example and none for general (6, 4, 4 or 2
\* variants in total); the list is determined by the query and the category.
C21_VariantsByCategory ==
    VariantsBuilt =>
        LET query_type == Val(state.query_type)
            prefixes == CategoryPrefixes(query_type)
        IN  /\ query_type \in VALID_QUERY_TYPES
            /\ Len(search_queries) = 2 + Len(prefixes)
            /\ search_queries[1] = state.query
            /\ search_queries[2] = <<"Python ">> \o state.query
            /\ \A i \in 1..Len(prefixes) :
                  search_queries[2 + i] = <<prefixes[i]>> \o state.query
            /\ Len(search_queries) =
                  CASE query_type = Langgraph -> 6
                    [] query_type \in {Langchain, CodeExample} -> 4
                    [] query_type = General -> 2

C21_Witness ==
    /\ VariantsBuilt
    /\ state.query_type = Some(General)
    /\ state.query # <<>>
    /\ search_queries = << state.query, <<"Python ">> \o state.query >>

\* retriever has returned the patch of a search (the index was available)
SearchedContext ==
    /\ pc = "answer_generator"
    /\ last.node = "retriever"
    /\ last.cap = "search"

WebSection(web_results) == <<WEB_HEADER>> \o Join(web_results, <<"\n\n">>)
DocSection(docs) == <<DOC_HEADER>> \o format_docs(docs)
NothingFound == <<"No relevant information found.">>

\* C22: with the index available, the context is the web section iff
\* web_results is non-empty, followed by the documentation section iff a
\* document was retained, joined by a blank line with the web section
\* first, and it is the 'No relevant information found.' sentinel iff both
\* are empty.
C22_ContextSections ==
    SearchedContext =>
        LET web == web_results_of(state)
            docs == Val(state.retrieved_docs)
            context == Val(state.context)
        IN  /\ (web # <<>> /\ docs # <<>>) =>
                  context = WebSection(web) \o <<"\n\n">> \o DocSection(docs)
            /\ (web # <<>> /\ docs = <<>>) => context = WebSection(web)
            /\ (web = <<>> /\ docs # <<>>) => context = DocSection(docs)
            /\ (context = NothingFound) <=> (web = <<>> /\ docs = <<>>)

C22_Witness ==
    /\ SearchedContext
    /\ web_results_of(state) # <<>>
    /\ Val(state.retrieved_docs) # <<>>
    /\ Val(state.context)[1] = WEB_HEADER
    /\ \E i \in 2..Len(Val(state.context)) : Val(state.context)[i] = DOC_HEADER

\* web_search has returned the patch of a provider call that succeeded
WebFormatted ==
    /\ pc = "retriever"
    /\ last.node = "web_search"
    /\ last.out = "ok"

HasTitleOrBody(r) == r.title # <<>> \/ r.body # <<>>
HasTitleAndBody(r) == r.title # <<>> /\ r.body # <<>>

\* The entry of a raw result: title and body, the URL when present
EntryOf(r) ==
    <<"**">> \o r.title \o <<"**\n">> \o r.body
        \o (IF r.href = <<>> THEN <<>> ELSE <<"\nSource: ">> \o r.href)

\* C23 as stated: every raw result with a title or a body yields one
\* entry of web_results.
C23_DiscardsOnlyWithoutTitleAndBody ==
    WebFormatted =>
        Len(Val(state.web_results)) = Len(SelectSeq(last.output, HasTitleOrBody))

\* C23 amended: web_search discards a raw result when it lacks the title
\* or the body: the entries of web_results are those of the raw results
\* that have both, in the order of the raw results, each with the source
\* URL appended when present.
C23_KeepsResultsWithTitleAndBody ==
    WebFormatted =>
        LET kept == SelectSeq(last.output, HasTitleAndBody)
            web == Val(state.web_results)
        IN  /\ Len(web) = Len(kept)
            /\ \A i \in 1..Len(kept) : web[i] = EntryOf(kept[i])

C23_Witness ==
    /\ WebFormatted
    /\ Len(last.output) = 3
    /\ Len(Val(state.web_results)) = 2
    /\ last.output[3].title = <<>>
    /\ last.output[3].body # <<>>
    /\ last.output[2].href = <<>>

\* The capitalized role of an entry
RoleName(role) ==
    CASE role = User -> <<"U","s","e","r">>
      [] role = Assistant -> <<"A","s","s","i","s","t","a","n","t">>

LineOf(msg) == RoleName(msg.role) \o <<": ">> \o <<msg.content>>

\* The history text inside a generation prompt
HistoryTextOf(history_text) ==
    last.input = SYSTEM_PROMPT(Val(state.context), history_text)
                    \o <<"\n\nUser Question: ">> \o state.query

\* C24: the history text of the generation prompt is built from the last 6
\* entries of the history the node receives (all of them when fewer), one
\* 'Role: content' line per entry in the original order, and it is 'No
\* previous conversation.' for an empty history.
C24_HistoryTextLastSix ==
    GenerationCalled =>
        LET history == state.chat_history
            n == IF Len(history) < CHAT_HISTORY_CONTEXT_LENGTH
                 THEN Len(history) ELSE CHAT_HISTORY_CONTEXT_LENGTH
            lines == [i \in 1..n |-> LineOf(history[Len(history) - n + i])]
        IN  IF history = <<>>
            THEN HistoryTextOf(<<"No previous conversation.">>)
            ELSE HistoryTextOf(Join(lines, <<"\n">>))

C24_Witness ==
    /\ GenerationCalled
    /\ Len(state.chat_history) = MAX_CHAT_HISTORY
    /\ HistoryTextOf(Join([i \in 1..CHAT_HISTORY_CONTEXT_LENGTH |->
                              LineOf(state.chat_history[MAX_CHAT_HISTORY
                                  - CHAT_HISTORY_CONTEXT_LENGTH + i])], <<"\n">>))
    /\ ~HistoryTextOf(HistoryLines(state.chat_history))

----------------------------------------------------------------------------
(* The fields of the shared state along a run *)

Nodes == {"query_classifier", "web_search", "retriever", "answer_generator"}

\* The node a step of the run belongs to
NodeAt(p) == IF p = "multi_query_search" THEN "retriever" ELSE p

\* The fields each node produces
Produces(node) ==
    CASE node = "query_classifier" -> {"query_type"}
      [] node = "web_search" -> {"web_results"}
      [] node = "retriever" -> {"retrieved_docs", "context"}
      [] node = "answer_generator" -> {"response"}

ReadsOf(node) ==
    CASE node = "query_classifier" -> query_classifier_reads
      [] node = "web_search" -> web_search_reads
      [] node = "retriever" -> retriever_reads
      [] node = "answer_generator" -> answer_generator_reads

\* Every field outside a set keeps its value in the step
OnlyChanges(fields) ==
    \A f \in DOMAIN state : f \notin fields => state'[f] = state[f]

InRun == InCall /\ ~ValidationRaised

\* C25: a step of a node changes only the fields the node produces
\* (query_classifier: query_type; web_search: web_results; retriever:
\* retrieved_docs and context; answer_generator: response), and at END
\* query, mode and chat_history have the values of the initial state.
C25_PatchesChangeOwnFields ==
    /\ [][NodeAt(pc) \in Nodes => OnlyChanges(Produces(NodeAt(pc)))]_vars
    /\ [](pc = "returned" =>
            LET initial == initial_state(args.query, args.mode, args.chat_history)
            IN  /\ state.query = initial.query
                /\ state.mode = initial.mode
                /\ state.chat_history = initial.chat_history)

C25_Witness ==
    /\ pc = "returned"
    /\ trace = <<"query_classifier", "web_search", "retriever", "answer_generator">>
    /\ state.chat_history # <<>>
    /\ state.query = Strip(args.query)
    /\ args.query # Strip(args.query)
    /\ \A node \in Nodes : \A f \in Produces(node) : state[f] # None

\* A node has returned its patch in this run
Completed(node) ==
    /\ \E i \in 1..Len(trace) : trace[i] = node
    /\ NodeAt(pc) # node
    /\ ~RaisedBy(node)

\* The nodes that follow a node in this run
RECURSIVE After(_)
After(node) ==
    LET next == build_graph(node, state)
    IN  IF next = "END" THEN {} ELSE {next} \cup After(next)

UnsetUntilProduced ==
    \A node \in Nodes : \A f \in Produces(node) :
        state[f] # None => Completed(node)

NoReadOfLaterField ==
    NodeAt(pc) \in Nodes =>
        \A later \in After(NodeAt(pc)) :
            ReadsOf(NodeAt(pc)) \cap Produces(later) = {}

\* C26 as stated: every field except query and mode, chat_history
\* included, is unset until the node that produces it has run; no node
\* produces chat_history, so it is unset throughout the run.
C26_AllButQueryAndModeUnset ==
    InRun => (UnsetUntilProduced /\ state.chat_history = <<>>)

\* C26 amended: at every point of a run, query_type, web_results,
\* retrieved_docs, context and response are unset until the node that
\* produces them has returned, and no node reads a field produced by a
\* later node; chat_history is set from the start, with query and mode.
C26_ProducedFieldsUnsetUntilProduced ==
    /\ UnsetUntilProduced
    /\ InRun => NoReadOfLaterField
    /\ (InRun /\ trace = <<>>) =>
          state.chat_history = limit_history(args.chat_history)

C26_Witness ==
    /\ pc = "multi_query_search"
    /\ state.mode = Online
    /\ state.query_type # None
    /\ state.web_results # None
    /\ state.retrieved_docs = None
    /\ state.context = None
    /\ state.response = None
    /\ Len(state.chat_history) = ShortHistory

----------------------------------------------------------------------------
(* No per-run state between invocations *)

\* What a run holds: the shared state and the locals of the search
RunState(s, queries, n, seen, docs) ==
    [state |-> s, search_queries |-> queries, qi |-> n,
     seen_content |-> seen, all_docs |-> docs]

\* The request a node sends to a capability, from what the run holds
RequestOf(r, node, cap) ==
    CASE node = "query_classifier" /\ cap = "llm" ->
             CLASSIFICATION_PROMPT(r.state.query)
      [] node = "web_search" -> web_search_query(r.state)
      [] node = "retriever" /\ cap = "search" -> r.search_queries[r.qi + 1]
      [] node = "answer_generator" /\ cap = "llm" -> generation_prompt(r.state)
      [] OTHER -> <<>>

\* What the run holds after a capability answered: a function of what it
\* held before and of the answer (l.out, l.output), of nothing else
AfterResponse(r, l) ==
    CASE l.node = "query_classifier" ->
             IF l.cap = "llm" /\ l.out = "ok"
             THEN [r EXCEPT !.state.query_type = Some(classify(l.output))]
             ELSE r
      [] l.node = "web_search" ->
             IF l.out = "ok"
             THEN [r EXCEPT !.state.web_results = Some(format_results(l.output))]
             ELSE IF l.out \in WebCaught
             THEN [r EXCEPT !.state.web_results = Some(<<>>)]
             ELSE r
      [] l.node = "retriever" /\ l.cap = "get_vectorstore" ->
             IF l.out = "raised"
             THEN r
             ELSE IF l.output = None
             THEN [r EXCEPT !.state.retrieved_docs = Some(<<>>),
                            !.state.context = Some(VECTORSTORE_UNAVAILABLE)]
             ELSE RunState(r.state,
                           build_search_queries(r.state.query, Val(r.state.query_type)),
                           0, {}, <<>>)
      [] l.node = "retriever" /\ l.cap = "search" ->
             IF l.out = "raised"
             THEN [r EXCEPT !.qi = r.qi + 1]
             ELSE LET a == add_docs(l.output, r.seen_content, r.all_docs, MAX_TOTAL_DOCS)
                      patch == retriever_patch(r.state, a.all_docs)
                      done == a.returned \/ r.qi + 1 = Len(r.search_queries)
                  IN  RunState(IF done
                               THEN [r.state EXCEPT !.retrieved_docs = patch.retrieved_docs,
                                                    !.context = patch.context]
                               ELSE r.state,
                               r.search_queries, r.qi + 1, a.seen, a.all_docs)
      [] l.node = "answer_generator" ->
             LET type == IF l.cap = "client" THEN l.out ELSE invoke_raises(l.out)
             IN  IF l.cap = "llm" /\ l.out = "ok"
                 THEN [r EXCEPT !.state.response = Some(l.output)]
                 ELSE IF generator_catches(type)
                 THEN [r EXCEPT !.state.response = Some(error_response(type, l.out))]
                 ELSE r

\* C27: a run starts from its arguments alone, each of its steps takes
\* what the run holds to a value determined by that and by the capability's
\* answer, each request is determined by what the run holds, and the answer
\* returned is the response of the run's state: two runs with the same
\* query, mode, history, index handle and capability answers return the
\* same answer, whatever ran before them.
C27_RunDependsOnInputsAndResponses ==
    [][ /\ (pc = "idle" /\ pc' \notin {"idle", "raised"}) =>
              /\ state' = [ query |-> sanitize_query(Strip(args'.query)),
                            query_type |-> None,
                            mode |-> args'.mode,
                            retrieved_docs |-> None,
                            web_results |-> None,
                            context |-> None,
                            response |-> None,
                            chat_history |-> limit_history(args'.chat_history) ]
              /\ result' = None
        /\ NodeAt(pc) \in Nodes =>
              LET held == RunState(state, search_queries, qi, seen_content, all_docs)
              IN  /\ RunState(state', search_queries', qi', seen_content', all_docs')
                        = AfterResponse(held, last')
                  /\ last'.input = RequestOf(held, last'.node, last'.cap)
                  /\ last'.node = NodeAt(pc)
                  /\ pc' = "returned" => result' = state'.response
                  /\ pc' # "returned" => result' = None
      ]_vars

\* A run that found the index handle cached by an earlier run, after a
\* web search, with a history
C27_Witness ==
    /\ pc = "returned"
    /\ vectorstore_cache # None
    /\ calls.load = 0
    /\ loads = 1
    /\ trace = <<"query_classifier", "web_search", "retriever", "answer_generator">>
    /\ state.chat_history # <<>>
    /\ result = state.response
    /\ result = Some(<<"An answer.">>)

----------------------------------------------------------------------------
(* Web results and the state of the index *)

\* retriever has run after a web search that returned snippets
WebResultsRetrieved ==
    /\ pc = "answer_generator"
    /\ web_results_of(state) # <<>>

\* retriever took the short-circuit of an unavailable vector store
ShortCircuited == last.node = "retriever" /\ last.cap = "get_vectorstore"

\* The web section with the snippets of the state
SnippetSection == <<WEB_HEADER>> \o Join(web_results_of(state), <<"\n\n">>)

\* C28 as stated: whenever web_results is non-empty when retriever runs,
\* the context handed to answer_generator contains the web-results section
\* with those snippets, for every state of the vector index.
C28_WebSectionForEveryIndexState ==
    WebResultsRetrieved => IsPrefix(SnippetSection, Val(state.context))

\* C28 amended: whenever web_results is non-empty when retriever runs and
\* the index is available (with documents or with no match), the context
\* starts with the web-results section; when the index is unavailable the
\* context is the advisory message alone and the snippets are left out.
C28_WebSectionWhenIndexAvailable ==
    WebResultsRetrieved =>
        /\ ~ShortCircuited => IsPrefix(SnippetSection, Val(state.context))
        /\ ShortCircuited =>
              /\ state.context = Some(VECTORSTORE_UNAVAILABLE)
              /\ \A i \in 1..Len(Val(state.context)) :
                    /\ Val(state.context)[i] # WEB_HEADER
                    /\ \A j \in 1..Len(web_results_of(state)) :
                          ~IsPrefix(web_results_of(state)[j],
                                    SubSeq(Val(state.context), i, Len(Val(state.context))))

C28_Witness ==
    /\ WebResultsRetrieved
    /\ ShortCircuited
    /\ index_on_disk = "absent"
    /\ Len(web_results_of(state)) = 2
    /\ state.retrieved_docs = Some(<<>>)
    /\ state.context = Some(VECTORSTORE_UNAVAILABLE)

----------------------------------------------------------------------------
(* set_mode during a run *)

\* The node that follows query_classifier for a mode
BranchOf(mode) == IF mode = Online THEN "web_search" ELSE "retriever"

\* C29: a set_mode call during a run does not affect the run: the state
\* keeps the mode passed to run_agent, the node after query_classifier is
\* the one of that mode, and the nodes run are those of that mode, for
\* every interleaving of set_mode with the run's steps.
C29_RunKeepsItsMode ==
    /\ [](InRun => state.mode = args.mode)
    /\ [](pc = "returned" => trace = ExpectedTrace(args.mode))
    /\ [][(pc = "query_classifier" /\ pc' \notin {"query_classifier", "raised"}) =>
              pc' = BranchOf(args.mode)]_vars
    /\ [][(InRun /\ pc' # "idle") =>
              (args'.mode = args.mode /\ state'.mode = state.mode)]_vars

\* An online run during which the flag was set to offline
C29_Witness ==
    /\ pc = "returned"
    /\ args.mode = Online
    /\ state.mode = Online
    /\ AGENT_MODE = Offline
    /\ Offline \in mode_set
    /\ trace = <<"query_classifier", "web_search", "retriever", "answer_generator">>

----------------------------------------------------------------------------
(* Concurrent first calls of get_graph *)

GraphReturned(t) == gret[t].done

\* C30: for any number of threads calling get_graph concurrently for the
\* first time, build_graph is executed exactly once in the process and
\* every caller receives the same compiled graph.
C30_BuiltOnceSameInstance ==
    /\ builds <= 1
    /\ \A t, u \in Threads :
          (GraphReturned(t) /\ GraphReturned(u)) => gret[t].value = gret[u].value
    /\ \A t \in Threads : GraphReturned(t) => (builds = 1 /\ gret[t].value = Some(1))


====
